---- MODULE Spec2Model ----
(***************************************************************************)
(* PAID: the error-capture and prompt-construction pipeline.               *)
(*                                                                         *)
(* Text is modelled as a sequence of tokens: "" is <<>>, concatenation and *)
(* f-string interpolation are \o, and a literal of the source is one       *)
(* token.  A Python value is a record [t, s]: t = "str" with the text s,   *)
(* or t = "None".                                                          *)
(*                                                                         *)
(* Each public entry point (debug_code, debug_file, debug_with_ai, the     *)
(* AutoDebug scope, analyze_error, format_error_context) is one action     *)
(* that runs the whole call, every nested call included, and leaves what   *)
(* the call did in `last`; Resume is the caller going on after the call.   *)
(* The environment of a call (what executing the snippet does, whether the *)
(* template resources load, what the explanation service answers) is an    *)
(* input of the action.                                                    *)
(***************************************************************************)
EXTENDS Integers, Sequences, FiniteSets, TLC

VARIABLES
    TEMPLATES_AVAILABLE,  \* debugger.py module flag
    JINJA2_AVAILABLE,     \* enhanced_debugger.py module flag
    loader,               \* prompt_templates._loader: 0 is None, n > 0 the n-th instance built
    constructed,          \* number of PromptTemplateLoader instances built so far
    requests,             \* number of chat.completions.create calls made so far
    calls,                \* number of entry-point calls made so far
    last,                 \* the call that has just returned or raised, or NoCall
    tally,                \* per debugger module: faults detected and requests sent by
                          \* its debug_code and AutoDebug invocations so far
    threads,              \* per thread calling get_loader: where it is in the call
    heap,                 \* the PromptTemplateLoader objects allocated: which attributes are set
    settled               \* history: the instance stored the first time no call was in
                          \* flight with an instance stored, 0 before

vars ==
    <<TEMPLATES_AVAILABLE, JINJA2_AVAILABLE, loader, constructed, requests, calls, last, tally,
      threads, heap, settled>>

\* Bound on the number of entry-point calls in one run of the process.
MaxCalls == 3

\* Bounds on the threads calling get_loader and on the calls each one makes.
NThreads == 2

MaxGets == 2

-----------------------------------------------------------------------------
(* Python values *)

PyNone == [t |-> "None", s |-> <<>>]

PyStr(s) == [t |-> "str", s |-> s]

\* str.format / f-string interpolation of a value.
Fmt(v) == IF v.t = "None" THEN <<"None">> ELSE v.s

\* An exception instance: class name, whether the class derives from
\* Exception (SystemExit, KeyboardInterrupt do not), and str(e).
Exc(cls, isException, msg) == [cls |-> cls, isException |-> isException, msg |-> msg]

NoExc == Exc("", FALSE, <<>>)

\* The outcome of a call: a returned value or a raised exception.
Return(v) == [raised |-> FALSE, exc |-> NoExc, val |-> v]

Raise(e) == [raised |-> TRUE, exc |-> e, val |-> PyNone]

-----------------------------------------------------------------------------
(* Input domains *)

Variants == {"basic", "enhanced"}

Models == {"default", "fast"}

Templates == {"standard"}

Codes == {<<"run()">>, <<"print(", "SOURCE CODE:", ")">>}

Messages == {<<>>, <<"division by zero">>}

\* What running a piece of target code does: completes, or raises.
Faults ==
    {Exc(c, TRUE, m) : c \in {"ZeroDivisionError"}, m \in Messages}
    \cup {Exc(c, FALSE, m) : c \in {"SystemExit"}, m \in Messages}

NoFault == NoExc

ExecOutcomes == {NoFault} \cup Faults

\* What the explanation service does with one request.
ServiceOutcomes ==
    { [kind |-> "text", content |-> PyStr(<<"explanation">>), detail |-> <<>>],
      [kind |-> "text", content |-> PyStr(<<>>), detail |-> <<>>],
      [kind |-> "text", content |-> PyNone, detail |-> <<>>],
      [kind |-> "nochoices", content |-> PyNone, detail |-> <<>>],
      [kind |-> "fail", content |-> PyNone, detail |-> <<"Connection error.">>],
      [kind |-> "fail", content |-> PyNone, detail |-> <<>>] }

\* The environment of one call: whether PromptTemplateLoader() raises,
\* whether error_analysis.jinja loads and renders, whether system_prompt.txt
\* can be read, and what the service answers.
Envs == [ctor_raises : BOOLEAN, tpl : BOOLEAN, sys : BOOLEAN, svc : ServiceOutcomes]

\* What open(filepath).read() does.
Files ==
    { [kind |-> "missing", code |-> <<>>], [kind |-> "unreadable", code |-> <<>>] }
    \cup { [kind |-> "ok", code |-> c] : c \in Codes }

-----------------------------------------------------------------------------
(* prompt_templates.py *)

\* The loader state threaded through a call.
LoaderState == [inst |-> loader, built |-> constructed]

\* A reference to the n-th PromptTemplateLoader instance built.
PyLoader(n) == [t |-> "loader", s |-> <<n>>]

\* Mutant of get_loader: a new instance built and stored at every call.
get_loader_always_builds(L, env) ==
    IF env.ctor_raises
    THEN [out |-> Raise(Exc("OSError", TRUE, <<"loader">>)), L |-> L]
    ELSE [out |-> Return(PyLoader(L.built + 1)),
          L |-> [inst |-> L.built + 1, built |-> L.built + 1]]

get_loader(L, env) ==
    IF L.inst = 0
    THEN IF env.ctor_raises
         THEN [out |-> Raise(Exc("OSError", TRUE, <<"loader">>)), L |-> L]
         ELSE [out |-> Return(PyLoader(L.built + 1)),
               L |-> [inst |-> L.built + 1, built |-> L.built + 1]]
    ELSE [out |-> Return(PyLoader(L.inst)), L |-> L]

\* What the error_analysis.jinja template renders to: the template text is a
\* resource outside the source, it is given every field as a variable.
RenderedTemplate(info, extra) ==
    <<"error_analysis.jinja">> \o Fmt(info.code) \o Fmt(info.error_type)
        \o Fmt(info.error_message) \o Fmt(info.traceback) \o extra

\* PromptTemplateLoader.render_error_analysis on the loader get_loader gave
\* (g is get_loader's result: its failure goes on to the caller).
render_error_analysis(g, env, info, extra) ==
    IF g.out.raised THEN g
    ELSE IF env.tpl
         THEN [out |-> Return(PyStr(RenderedTemplate(info, extra))), L |-> g.L]
         ELSE [out |-> Raise(Exc("TemplateNotFound", TRUE, <<"error_analysis.jinja">>)), L |-> g.L]

render_error_prompt(L, env, info, extra) ==
    render_error_analysis(get_loader(L, env), env, info, extra)

SystemPromptFile == <<"system_prompt.txt">>

\* PromptTemplateLoader.load_system_prompt on the loader get_loader gave.
load_system_prompt(g, env) ==
    IF g.out.raised THEN g
    ELSE IF env.sys
         THEN [out |-> Return(PyStr(SystemPromptFile)), L |-> g.L]
         ELSE [out |-> Raise(Exc("FileNotFoundError", TRUE, <<"system_prompt.txt">>)), L |-> g.L]

get_system_prompt(L, env) == load_system_prompt(get_loader(L, env), env)

-----------------------------------------------------------------------------
(* debugger.py and enhanced_debugger.py: AIDebugger *)

\* AIDebugger.__init__: the enhanced debugger keeps use_templates, the basic
\* one has no such attribute (FALSE here, never read).
AIDebugger(variant, use_templates) ==
    [variant |-> variant,
     use_templates |-> IF variant = "enhanced"
                       THEN use_templates /\ JINJA2_AVAILABLE
                       ELSE FALSE]

\* The error_info dictionary of analyze_error.
ErrorInfo(code, error_type, error_message, traceback_str) ==
    [code |-> code, error_type |-> error_type,
     error_message |-> error_message, traceback |-> traceback_str]

NoInfo == ErrorInfo(PyNone, PyNone, PyNone, PyNone)

\* Mutant of FallbackPrompt: the traceback section put before the error
\* information.
FallbackPrompt_traceback_first(info) ==
    <<"You are an expert Python debugger. Analyze this error:", "SOURCE CODE:">>
        \o Fmt(info.code)
        \o <<"TRACEBACK:">> \o Fmt(info.traceback)
        \o <<"ERROR INFORMATION:", "Type:">> \o Fmt(info.error_type)
        \o <<"Message:">> \o Fmt(info.error_message)
        \o <<"Provide a clear explanation covering:",
             "1. What happened", "2. Where it occurs", "3. Why it occurs",
             "4. How to fix it", "5. Best practices to avoid this",
             "Be direct and educational.">>

\* The fixed-format prompt of format_error_context.
FallbackPrompt(info) ==
    <<"You are an expert Python debugger. Analyze this error:", "SOURCE CODE:">>
        \o Fmt(info.code)
        \o <<"ERROR INFORMATION:", "Type:">> \o Fmt(info.error_type)
        \o <<"Message:">> \o Fmt(info.error_message)
        \o <<"TRACEBACK:">> \o Fmt(info.traceback)
        \o <<"Provide a clear explanation covering:",
             "1. What happened", "2. Where it occurs", "3. Why it occurs",
             "4. How to fix it", "5. Best practices to avoid this",
             "Be direct and educational.">>

DefaultSystemPrompt ==
    <<"You are an expert Python debugger and mentor. Explain errors in clear, simple language following the exact format requested.">>

\* try: return render_error_prompt(...) / except Exception: pass, then the
\* fallback (r is what render_error_prompt did).
render_or_fallback(r, info) ==
    IF r.out.raised /\ r.out.exc.isException
    THEN [out |-> Return(PyStr(FallbackPrompt(info))), L |-> r.L]
    ELSE r

format_error_context(self, L, env, info) ==
    IF self.variant = "basic"
    THEN IF TEMPLATES_AVAILABLE
         THEN render_or_fallback(render_error_prompt(L, env, info, <<>>), info)
         ELSE [out |-> Return(PyStr(FallbackPrompt(info))), L |-> L]
    ELSE IF self.use_templates
         THEN render_error_prompt(L, env, info, Fmt(PyStr(<<>>)) \o Fmt(PyStr(<<>>)))
         ELSE [out |-> Return(PyStr(FallbackPrompt(info))), L |-> L]

\* try: system_prompt = get_system_prompt() / except Exception: the default.
system_or_default(r) ==
    IF r.out.raised /\ r.out.exc.isException
    THEN [out |-> Return(PyStr(DefaultSystemPrompt)), L |-> r.L]
    ELSE r

\* The system instruction chosen by analyze_error.
system_prompt_of(self, L, env) ==
    IF self.variant = "basic"
    THEN IF TEMPLATES_AVAILABLE
         THEN system_or_default(get_system_prompt(L, env))
         ELSE [out |-> Return(PyStr(DefaultSystemPrompt)), L |-> L]
    ELSE IF self.use_templates
         THEN get_system_prompt(L, env)
         ELSE [out |-> Return(PyStr(DefaultSystemPrompt)), L |-> L]

ErrorPrefix(self) ==
    IF self.variant = "basic"
    THEN <<"Error communicating with AI service: ">>
    ELSE <<"(cross mark) ", "Error communicating with AI service: ">>

\* Mutant of Request: the model selector replaced by the default one.
Request_default_model(model, system_prompt, prompt) ==
    [model |-> "default",
     messages |-> << [role |-> "system", content |-> system_prompt],
                     [role |-> "user", content |-> prompt] >>]

\* client.chat.completions.create(model=..., messages=[system, user]).
Request(model, system_prompt, prompt) ==
    [model |-> model,
     messages |-> << [role |-> "system", content |-> system_prompt],
                     [role |-> "user", content |-> prompt] >>]

\* Mutant of service_reply: the failure detail left out of the string.
service_reply_no_detail(self, svc) ==
    CASE svc.kind = "text" -> svc.content
      [] OTHER -> PyStr(ErrorPrefix(self))

\* The try/except around the service call: the text of the first choice, or
\* the failure folded into a string.
service_reply(self, svc) ==
    CASE svc.kind = "text" -> svc.content
      [] svc.kind = "nochoices" -> PyStr(ErrorPrefix(self) \o <<"list index out of range">>)
      [] OTHER -> PyStr(ErrorPrefix(self) \o svc.detail)

\* What a call did: its outcome, the loader state it leaves, the error_info it
\* built, the prompt and system instruction it rendered, the requests it sent,
\* whether target code was executed, and what it printed.
Frame(out, L, info, prompt, system, sent, executed, printed) ==
    [out |-> out, L |-> L, info |-> info, prompt |-> prompt, system |-> system,
     sent |-> sent, executed |-> executed, printed |-> printed]

\* Mutant of call_service: a failed request is sent a second time.
call_service_retries(self, env, model, info, p, s) ==
    IF p.out.raised
    THEN Frame(p.out, p.L, info, PyNone, PyNone, <<>>, FALSE, <<>>)
    ELSE IF s.out.raised
    THEN Frame(s.out, s.L, info, p.out.val, PyNone, <<>>, FALSE, <<>>)
    ELSE Frame(Return(service_reply(self, env.svc)), s.L, info, p.out.val, s.out.val,
               IF env.svc.kind = "fail"
               THEN <<Request(model, s.out.val, p.out.val), Request(model, s.out.val, p.out.val)>>
               ELSE <<Request(model, s.out.val, p.out.val)>>,
               FALSE, <<>>)

\* analyze_error from the service call on: p is the rendered prompt, s the
\* system instruction (either may have raised instead).
call_service(self, env, model, info, p, s) ==
    IF p.out.raised
    THEN Frame(p.out, p.L, info, PyNone, PyNone, <<>>, FALSE, <<>>)
    ELSE IF s.out.raised
    THEN Frame(s.out, s.L, info, p.out.val, PyNone, <<>>, FALSE, <<>>)
    ELSE Frame(Return(service_reply(self, env.svc)), s.L, info, p.out.val, s.out.val,
               <<Request(model, s.out.val, p.out.val)>>, FALSE, <<>>)

\* analyze_error once the prompt is rendered.
analyze_prompt(self, env, model, info, p) ==
    call_service(self, env, model, info, p, system_prompt_of(self, p.L, env))

analyze_error(self, L, env, code, error_type, error_message, traceback_str, model, template) ==
    analyze_prompt(self, env, model,
                   ErrorInfo(code, error_type, error_message, traceback_str),
                   format_error_context(self, L, env,
                       ErrorInfo(code, error_type, error_message, traceback_str)))

\* traceback.format_exc() / ''.join(traceback.format_exception(...)).
format_exception(e) ==
    <<"Traceback (most recent call last):", "  File ...">> \o <<e.cls>> \o e.msg

ErrorDetected == <<"ERROR DETECTED - Analyzing with AI...">>

\* debug_code after analyze_error: print(explanation); return explanation.
print_explanation(a) ==
    IF a.out.raised
    THEN [a EXCEPT !.executed = TRUE, !.printed = ErrorDetected]
    ELSE [a EXCEPT !.executed = TRUE, !.printed = ErrorDetected \o Fmt(a.out.val)]

\* Mutant of debug_code: the success message returned instead of None.
debug_code_returns_message(self, L, env, code, model, template, outcome) ==
    IF outcome = NoFault
    THEN Frame(Return(PyStr(<<"Code executed successfully - no errors detected!">>)),
               L, NoInfo, PyNone, PyNone, <<>>, TRUE,
               <<"Code executed successfully - no errors detected!">>)
    ELSE IF ~outcome.isException
    THEN Frame(Raise(outcome), L, NoInfo, PyNone, PyNone, <<>>, TRUE, <<>>)
    ELSE print_explanation(
             analyze_error(self, L, env, PyStr(code), PyStr(<<outcome.cls>>),
                           PyStr(outcome.msg), PyStr(format_exception(outcome)),
                           model, template))

\* Mutant of debug_code: a bare except, catching every fault.
debug_code_bare_except(self, L, env, code, model, template, outcome) ==
    IF outcome = NoFault
    THEN Frame(Return(PyNone), L, NoInfo, PyNone, PyNone, <<>>, TRUE,
               <<"Code executed successfully - no errors detected!">>)
    ELSE print_explanation(
             analyze_error(self, L, env, PyStr(code), PyStr(<<outcome.cls>>),
                           PyStr(outcome.msg), PyStr(format_exception(outcome)),
                           model, template))

debug_code(self, L, env, code, model, template, outcome) ==
    IF outcome = NoFault
    THEN Frame(Return(PyNone), L, NoInfo, PyNone, PyNone, <<>>, TRUE,
               <<"Code executed successfully - no errors detected!">>)
    ELSE IF ~outcome.isException
    THEN Frame(Raise(outcome), L, NoInfo, PyNone, PyNone, <<>>, TRUE, <<>>)
    ELSE print_explanation(
             analyze_error(self, L, env, PyStr(code), PyStr(<<outcome.cls>>),
                           PyStr(outcome.msg), PyStr(format_exception(outcome)),
                           model, template))

\* The except clauses of debug_file around what debug_code did (d).
report_file(d) ==
    IF d.out.raised /\ d.out.exc.isException
    THEN [d EXCEPT !.out = Return(PyNone),
                   !.printed = <<"Debugging file:">> \o d.printed \o
                       (IF d.out.exc.cls = "FileNotFoundError"
                        THEN <<"File not found:">>
                        ELSE <<"Error reading file:">> \o d.out.exc.msg)]
    ELSE [d EXCEPT !.printed = <<"Debugging file:">> \o d.printed]

\* Mutant of debug_file: a missing file read as an empty file.
debug_file_missing_as_empty(self, L, env, file, model, template, outcome) ==
    CASE file.kind = "unreadable" ->
            Frame(Return(PyNone), L, NoInfo, PyNone, PyNone, <<>>, FALSE, <<"Error reading file:">>)
      [] OTHER ->
            report_file(debug_code(self, L, env, file.code, model, template, outcome))

debug_file(self, L, env, file, model, template, outcome) ==
    CASE file.kind = "missing" ->
            Frame(Return(PyNone), L, NoInfo, PyNone, PyNone, <<>>, FALSE, <<"File not found:">>)
      [] file.kind = "unreadable" ->
            Frame(Return(PyNone), L, NoInfo, PyNone, PyNone, <<>>, FALSE, <<"Error reading file:">>)
      [] OTHER ->
            report_file(debug_code(self, L, env, file.code, model, template, outcome))

debug_with_ai(variant, L, env, code, model, template, outcome) ==
    debug_code(AIDebugger(variant, TRUE), L, env, code, model, template, outcome)

-----------------------------------------------------------------------------
(* AutoDebug *)

PyTrue == [t |-> "bool", s |-> <<"True">>]

ContextNotAvailable ==
    <<"Context not available - use debug_code() or debug_file() for full context">>

\* AutoDebug.__init__: its own debugger, built with the default use_templates.
AutoDebug(variant, model, template) ==
    [debugger |-> AIDebugger(variant, TRUE), model |-> model, template |-> template]

\* __exit__ after analyze_error: print(explanation); return True.
suppress(a) ==
    IF a.out.raised
    THEN [a EXCEPT !.printed = ErrorDetected]
    ELSE [a EXCEPT !.out = Return(PyTrue), !.printed = ErrorDetected \o Fmt(a.out.val)]

\* Mutant of AutoDebug_exit: return True outside the if, whatever happened.
AutoDebug_exit_always_true(self, L, env, fault) ==
    IF fault # NoFault
    THEN suppress(analyze_error(self.debugger, L, env, PyStr(ContextNotAvailable),
                                PyStr(<<fault.cls>>), PyStr(fault.msg),
                                PyStr(format_exception(fault)), self.model, self.template))
    ELSE Frame(Return(PyTrue), L, NoInfo, PyNone, PyNone, <<>>, FALSE, <<>>)

\* Mutant of AutoDebug_exit: self.code (None since __init__) passed as the code.
AutoDebug_exit_self_code(self, L, env, fault) ==
    IF fault # NoFault
    THEN suppress(analyze_error(self.debugger, L, env, PyNone,
                                PyStr(<<fault.cls>>), PyStr(fault.msg),
                                PyStr(format_exception(fault)), self.model, self.template))
    ELSE Frame(Return(PyNone), L, NoInfo, PyNone, PyNone, <<>>, FALSE, <<>>)

\* AutoDebug.__exit__(exc_type, exc_val, exc_tb); NoFault is (None, None, None).
AutoDebug_exit(self, L, env, fault) ==
    IF fault # NoFault
    THEN suppress(analyze_error(self.debugger, L, env, PyStr(ContextNotAvailable),
                                PyStr(<<fault.cls>>), PyStr(fault.msg),
                                PyStr(format_exception(fault)), self.model, self.template))
    ELSE Frame(Return(PyNone), L, NoInfo, PyNone, PyNone, <<>>, FALSE, <<>>)

\* The with statement: the exception that leaves the scope, NoExc when
\* control resumes at the statement following it.
with_leaves(fault, exitOut) ==
    IF exitOut.raised THEN exitOut.exc
    ELSE IF fault # NoFault /\ exitOut.val # PyTrue THEN fault
    ELSE NoExc

-----------------------------------------------------------------------------
(* The process *)

NoFile == [kind |-> "none", code |-> <<>>]

NoCall ==
    [op |-> "none", self |-> [variant |-> "basic", use_templates |-> FALSE],
     code |-> <<>>, model |-> "", fault |-> NoFault,
     env |-> [ctor_raises |-> FALSE, tpl |-> TRUE, sys |-> TRUE,
              svc |-> [kind |-> "text", content |-> PyNone, detail |-> <<>>]],
     file |-> NoFile,
     frame |-> Frame(Return(PyNone), [inst |-> 0, built |-> 0], NoInfo,
                     PyNone, PyNone, <<>>, FALSE, <<>>),
     leaves |-> NoExc]

\* The exception a call lets out to its caller.
Escapes(out) == IF out.raised THEN out.exc ELSE NoExc

Threads == 1..NThreads

\* A thread that has not called get_loader yet.
NoThread == [pc |-> "idle", self |-> 0, ret |-> PyNone, raised |-> FALSE, gets |-> 0]

\* The import at the top of both debugger modules succeeds or fails once.
Init ==
    /\ \E ok \in BOOLEAN : TEMPLATES_AVAILABLE = ok /\ JINJA2_AVAILABLE = ok
    /\ loader = 0
    /\ constructed = 0
    /\ requests = 0
    /\ calls = 0
    /\ last = NoCall
    /\ tally = [v \in Variants |-> [faults |-> 0, requests |-> 0]]
    /\ threads = [t \in Threads |-> NoThread]
    /\ heap = <<>>
    /\ settled = 0

\* The invocations of debug_code (directly, through debug_with_ai or through
\* debug_file) and of AutoDebug.
Invocations == {"debug_code", "debug_with_ai", "debug_file", "AutoDebug"}

\* Whether an invocation detects a fault: debug_code's except Exception
\* clause is entered, or __exit__ is given an exception.
Detects(op, fault, file) ==
    CASE op = "AutoDebug" -> fault # NoFault
      [] op = "debug_file" -> file.kind = "ok" /\ fault # NoFault /\ fault.isException
      [] op \in {"debug_code", "debug_with_ai"} -> fault # NoFault /\ fault.isException
      [] OTHER -> FALSE

\* The tally after an invocation of debugger module v that sent n requests.
Tallied(v, detected, n) ==
    [tally EXCEPT ![v] = [faults |-> @.faults + (IF detected THEN 1 ELSE 0),
                          requests |-> @.requests + n]]

\* The bookkeeping common to every entry point.
Finish(op, self, code, model, fault, env, file, f, leaves) ==
    /\ last' = [op |-> op, self |-> self, code |-> code, model |-> model, fault |-> fault,
                env |-> env, file |-> file, frame |-> f, leaves |-> leaves]
    /\ loader' = f.L.inst
    /\ constructed' = f.L.built
    /\ requests' = requests + Len(f.sent)
    /\ calls' = calls + 1
    /\ tally' = IF op \in Invocations
                THEN Tallied(self.variant, Detects(op, fault, file), Len(f.sent))
                ELSE tally
    /\ UNCHANGED <<TEMPLATES_AVAILABLE, JINJA2_AVAILABLE, threads, heap, settled>>

\* A method or function call: what it raises goes to the caller.
FinishCall(op, self, code, model, fault, env, file, f) ==
    Finish(op, self, code, model, fault, env, file, f, Escapes(f.out))

\* A with statement: __exit__ decides what leaves the scope.
FinishScope(op, self, code, model, fault, env, file, f) ==
    Finish(op, self, code, model, fault, env, file, f, with_leaves(fault, f.out))

Idle == last = NoCall /\ calls < MaxCalls

DebuggerArgs == {<<"basic", FALSE>>, <<"enhanced", TRUE>>, <<"enhanced", FALSE>>}

\* debugger.debug_code(code, model)
DebugCode ==
    /\ Idle
    /\ \E d \in DebuggerArgs, code \in Codes, model \in Models, template \in Templates,
          outcome \in ExecOutcomes, env \in Envs :
        FinishCall("debug_code", AIDebugger(d[1], d[2]), code, model, outcome, env, NoFile,
                   debug_code(AIDebugger(d[1], d[2]), LoaderState, env, code, model,
                              template, outcome))

\* debugger.debug_file(filepath, model)
DebugFile ==
    /\ Idle
    /\ \E d \in DebuggerArgs, file \in Files, model \in Models, template \in Templates,
          outcome \in ExecOutcomes, env \in Envs :
        FinishCall("debug_file", AIDebugger(d[1], d[2]), file.code, model, outcome, env, file,
                   debug_file(AIDebugger(d[1], d[2]), LoaderState, env, file, model,
                              template, outcome))

\* debug_with_ai(code, api_key, model)
DebugWithAI ==
    /\ Idle
    /\ \E variant \in Variants, code \in Codes, model \in Models, template \in Templates,
          outcome \in ExecOutcomes, env \in Envs :
        FinishCall("debug_with_ai", AIDebugger(variant, TRUE), code, model, outcome, env,
                   NoFile,
                   debug_with_ai(variant, LoaderState, env, code, model, template, outcome))

\* with AutoDebug(model=model): <block>
AutoDebugScope ==
    /\ Idle
    /\ \E variant \in Variants, model \in Models, template \in Templates,
          fault \in ExecOutcomes, env \in Envs :
        FinishScope("AutoDebug", AIDebugger(variant, TRUE), ContextNotAvailable, model,
                    fault, env, NoFile,
                    AutoDebug_exit(AutoDebug(variant, model, template), LoaderState, env, fault))

\* debugger.analyze_error(code, error_type, error_message, traceback_str, model)
AnalyzeError ==
    /\ Idle
    /\ \E d \in DebuggerArgs, code \in Codes, model \in Models, template \in Templates,
          e \in Faults, env \in Envs :
        FinishCall("analyze_error", AIDebugger(d[1], d[2]), code, model, e, env, NoFile,
                   analyze_error(AIDebugger(d[1], d[2]), LoaderState, env, PyStr(code),
                                 PyStr(<<e.cls>>), PyStr(e.msg), PyStr(format_exception(e)),
                                 model, template))

\* format_error_context as an entry point: its result as a Frame.
format_frame(info, r) ==
    Frame(r.out, r.L, info, r.out.val, PyNone, <<>>, FALSE, <<>>)

\* debugger.format_error_context(error_info)
FormatErrorContext ==
    /\ Idle
    /\ \E d \in DebuggerArgs, code \in Codes, e \in Faults, env \in Envs :
        FinishCall("format_error_context", AIDebugger(d[1], d[2]), code, "", e, env, NoFile,
                   format_frame(
                       ErrorInfo(PyStr(code), PyStr(<<e.cls>>), PyStr(e.msg),
                                 PyStr(format_exception(e))),
                       format_error_context(AIDebugger(d[1], d[2]), LoaderState, env,
                           ErrorInfo(PyStr(code), PyStr(<<e.cls>>), PyStr(e.msg),
                                     PyStr(format_exception(e))))))

\* The environment of a call that does not reach the explanation service.
LoaderEnvs == {env \in Envs : env.svc = NoCall.env.svc}

\* A prompt_templates function as an entry point: its result as a Frame.
loader_frame(info, r) ==
    Frame(r.out, r.L, info, PyNone, PyNone, <<>>, FALSE, <<>>)

\* prompt_templates.get_loader()
GetLoader ==
    /\ Idle
    /\ \E env \in LoaderEnvs :
        FinishCall("get_loader", NoCall.self, <<>>, "", NoFault, env, NoFile,
                   loader_frame(NoInfo, get_loader(LoaderState, env)))

\* prompt_templates.render_error_prompt(code, error_type, error_message, traceback)
RenderErrorPrompt ==
    /\ Idle
    /\ \E code \in Codes, e \in Faults, env \in LoaderEnvs :
        FinishCall("render_error_prompt", NoCall.self, code, "", e, env, NoFile,
                   loader_frame(
                       ErrorInfo(PyStr(code), PyStr(<<e.cls>>), PyStr(e.msg),
                                 PyStr(format_exception(e))),
                       render_error_prompt(LoaderState, env,
                           ErrorInfo(PyStr(code), PyStr(<<e.cls>>), PyStr(e.msg),
                                     PyStr(format_exception(e))), <<>>)))

\* prompt_templates.get_system_prompt()
GetSystemPrompt ==
    /\ Idle
    /\ \E env \in LoaderEnvs :
        FinishCall("get_system_prompt", NoCall.self, <<>>, "", NoFault, env, NoFile,
                   loader_frame(NoInfo, get_system_prompt(LoaderState, env)))

\* The caller goes on with the statement after the call.
Resume ==
    /\ last # NoCall
    /\ last' = NoCall
    /\ UNCHANGED <<TEMPLATES_AVAILABLE, JINJA2_AVAILABLE, loader, constructed, requests, calls,
                   tally, threads, heap, settled>>

Next ==
    \/ DebugCode
    \/ DebugFile
    \/ DebugWithAI
    \/ AutoDebugScope
    \/ AnalyzeError
    \/ FormatErrorContext
    \/ GetLoader
    \/ RenderErrorPrompt
    \/ GetSystemPrompt
    \/ Resume

Spec == Init /\ [][Next]_vars

-----------------------------------------------------------------------------
(* get_loader called from several threads *)

(***************************************************************************)
(* The interpreter switches threads between bytecodes, so a call of        *)
(* get_loader is a sequence of steps: the test of line 85, the allocation  *)
(* of line 86 followed by the two assignments of __init__, the store of    *)
(* line 86, and the read of the global that line 87 returns.  A thread's   *)
(* self is the object it is constructing, 0 when it holds none.            *)
(***************************************************************************)

\* The threads inside a call of get_loader.
InFlight(th) == {t \in Threads : th[t].pc \notin {"idle", "done"}}

Settle(th, l) == IF settled = 0 /\ InFlight(th) = {} THEN l ELSE settled

\* One step of one thread.
ThreadStep(th, l, h, c) ==
    /\ threads' = th
    /\ loader' = l
    /\ heap' = h
    /\ constructed' = c
    /\ settled' = Settle(th, l)
    /\ UNCHANGED <<TEMPLATES_AVAILABLE, JINJA2_AVAILABLE, requests, calls, last, tally>>

\* The thread calls get_loader().
T_Call(t) ==
    /\ threads[t].pc = "idle"
    /\ threads[t].gets < MaxGets
    /\ ThreadStep([threads EXCEPT ![t] = [pc |-> "check", self |-> 0, ret |-> PyNone,
                                          raised |-> FALSE, gets |-> @.gets + 1]],
                  loader, heap, constructed)

\* if _loader is None:
T_Check(t) ==
    /\ threads[t].pc = "check"
    /\ ThreadStep([threads EXCEPT ![t].pc = IF loader = 0 THEN "new" ELSE "return"],
                  loader, heap, constructed)

\* Mutant of T_New: the new object is stored in _loader before __init__ runs.
T_New_publishes(t) ==
    /\ threads[t].pc = "new"
    /\ ThreadStep([threads EXCEPT ![t].pc = "init_dir", ![t].self = Len(heap) + 1],
                  Len(heap) + 1,
                  Append(heap, [prompts_dir |-> FALSE, env |-> FALSE]), constructed)

\* PromptTemplateLoader(): the object is allocated, __init__ is entered.
T_New(t) ==
    /\ threads[t].pc = "new"
    /\ ThreadStep([threads EXCEPT ![t].pc = "init_dir", ![t].self = Len(heap) + 1],
                  loader,
                  Append(heap, [prompts_dir |-> FALSE, env |-> FALSE]), constructed)

\* self.prompts_dir = Path(__file__).parent.parent / 'prompts'
T_InitDir(t) ==
    /\ threads[t].pc = "init_dir"
    /\ ThreadStep([threads EXCEPT ![t].pc = "init_env"], loader,
                  [heap EXCEPT ![threads[t].self].prompts_dir = TRUE], constructed)

\* self.env = Environment(...): the attribute is set, or Environment raises
\* and the exception leaves get_loader.
T_InitEnv(t) ==
    /\ threads[t].pc = "init_env"
    /\ \E ctor_raises \in BOOLEAN :
          IF ctor_raises
          THEN ThreadStep([threads EXCEPT ![t].pc = "done", ![t].self = 0,
                                          ![t].raised = TRUE],
                          loader, heap, constructed)
          ELSE ThreadStep([threads EXCEPT ![t].pc = "store"], loader,
                          [heap EXCEPT ![threads[t].self].env = TRUE], constructed + 1)

\* _loader = <the constructed instance>
T_Store(t) ==
    /\ threads[t].pc = "store"
    /\ ThreadStep([threads EXCEPT ![t].pc = "return", ![t].self = 0],
                  threads[t].self, heap, constructed)

\* return _loader
T_Return(t) ==
    /\ threads[t].pc = "return"
    /\ ThreadStep([threads EXCEPT ![t].pc = "done",
                                  ![t].ret = IF loader = 0 THEN PyNone ELSE PyLoader(loader)],
                  loader, heap, constructed)

\* The caller goes on with the statement after the call.
T_Resume(t) ==
    /\ threads[t].pc = "done"
    /\ ThreadStep([threads EXCEPT ![t].pc = "idle", ![t].ret = PyNone, ![t].raised = FALSE],
                  loader, heap, constructed)

NextThreads ==
    \/ \E t \in Threads : T_Call(t)
    \/ \E t \in Threads : T_Check(t)
    \/ \E t \in Threads : T_New(t)
    \/ \E t \in Threads : T_InitDir(t)
    \/ \E t \in Threads : T_InitEnv(t)
    \/ \E t \in Threads : T_Store(t)
    \/ \E t \in Threads : T_Return(t)
    \/ \E t \in Threads : T_Resume(t)

SpecThreads == Init /\ [][NextThreads]_vars

-----------------------------------------------------------------------------
(* Vocabulary of the properties *)

IsStr(v) == v.t = "str"

NonEmptyStr(v) == v.t = "str" /\ Len(v.s) > 0

\* sub occurs in s as a contiguous piece starting at some position >= from.
OccursFrom(s, sub, from) ==
    \E i \in from .. (Len(s) - Len(sub) + 1) : SubSeq(s, i, i + Len(sub) - 1) = sub

Contains(s, sub) == OccursFrom(s, sub, 1)

\* The pieces of segs occur in s one after the other, without overlap.
RECURSIVE InOrderFrom(_, _, _)
InOrderFrom(s, segs, from) ==
    IF segs = <<>> THEN TRUE
    ELSE \E i \in from .. (Len(s) - Len(Head(segs)) + 1) :
            /\ SubSeq(s, i, i + Len(Head(segs)) - 1) = Head(segs)
            /\ InOrderFrom(s, Tail(segs), i + Len(Head(segs)))

InOrder(s, segs) == InOrderFrom(s, segs, 1)

\* The calls that run target code through debug_code.
RunOps == {"debug_code", "debug_with_ai"}

\* The target code raised a fault of the ordinary exception class.
OrdinaryFault == last.fault # NoFault /\ last.fault.isException

\* The call got as far as the explanation service.
Asked == Len(last.frame.sent) = 1

\* The calls of the three prompt_templates functions.
LoaderOps == {"get_loader", "render_error_prompt", "get_system_prompt"}

\* The last call was made on a debugger (or on an AutoDebug scope).
DebuggerCall == last.op \notin LoaderOps \cup {"none"}

\* The templating backend is unavailable to the debugger of the last call.
BackendUnavailable ==
    IF last.self.variant = "basic" THEN ~TEMPLATES_AVAILABLE ELSE ~last.self.use_templates

-----------------------------------------------------------------------------
(* C1 *)

\* C1: for every snippet whose execution raises a fault, and whatever the
\* explanation service does (text, empty or missing text, failure), debug_code
\* returns a non-empty string.  Stated for debugger.py and a fault of the
\* ordinary exception class.
C1_NonEmptyExplanation ==
    (last.op \in RunOps /\ last.self.variant = "basic" /\ OrdinaryFault)
        => (~last.frame.out.raised /\ NonEmptyStr(last.frame.out.val))

-----------------------------------------------------------------------------
(* C2 *)

\* C2: for every snippet whose execution completes without raising,
\* debug_code and debug_with_ai return None (and nothing is raised).
C2_SuccessReturnsNone ==
    (last.op \in RunOps /\ last.fault = NoFault)
        => (last.frame.out = Return(PyNone) /\ last.leaves = NoExc)

C2_Witness ==
    /\ last.op = "debug_with_ai"
    /\ last.fault = NoFault
    /\ last.frame.executed
    /\ last.frame.out.val = PyNone

-----------------------------------------------------------------------------
(* C3 *)

ServiceErrorLiteral == <<"Error communicating with AI service: ">>

\* C3: whenever the explanation service call fails while a faulting snippet
\* is being explained, debug_code does not raise and returns a string that
\* contains "Error communicating with AI service" followed by the failure
\* detail, in the basic and in the enhanced debugger.
C3_ServiceFailureContained ==
    (last.op \in RunOps /\ Asked /\ last.env.svc.kind = "fail")
        => /\ ~last.frame.out.raised
           /\ last.leaves = NoExc
           /\ IsStr(last.frame.out.val)
           /\ Contains(last.frame.out.val.s, ServiceErrorLiteral \o last.env.svc.detail)

C3_Witness ==
    /\ last.op = "debug_code"
    /\ last.self.variant = "enhanced"
    /\ Asked
    /\ last.env.svc.kind = "fail"
    /\ last.env.svc.detail # <<>>
    /\ IsStr(last.frame.out.val)

-----------------------------------------------------------------------------
(* C4 *)

-----------------------------------------------------------------------------
(* C5 *)

\* C5 as claimed: every kind of fault the snippet can raise, those outside
\* the ordinary exception class included, is captured by debug_code and does
\* not propagate to the caller.
C5_AllFaultsCaptured ==
    (last.op = "debug_code" /\ last.self.variant = "basic" /\ last.fault # NoFault)
        => (~last.frame.out.raised /\ last.leaves = NoExc)

\* C5 as amended: debug_code of debugger.py captures every fault of the
\* ordinary exception class (it builds the error record from it and returns
\* without raising), and lets every fault outside that class propagate to
\* the caller unchanged, with nothing analysed and no request sent.
C5_OrdinaryFaultsCaptured ==
    (last.op = "debug_code" /\ last.self.variant = "basic" /\ last.fault # NoFault)
        => IF last.fault.isException
           THEN /\ ~last.frame.out.raised
                /\ last.leaves = NoExc
                /\ last.frame.info.error_type = PyStr(<<last.fault.cls>>)
           ELSE /\ last.leaves = last.fault
                /\ last.frame.info = NoInfo
                /\ last.frame.sent = <<>>

C5_Witness ==
    /\ last.op = "debug_code"
    /\ last.self.variant = "basic"
    /\ OrdinaryFault
    /\ last.frame.info.error_type = PyStr(<<last.fault.cls>>)
    /\ last.leaves = NoExc

-----------------------------------------------------------------------------
(* C6 *)

\* C6: debug_file on a path that does not exist returns None and does not
\* raise; no code is executed and no request is sent to the service.
C6_MissingFile ==
    (last.op = "debug_file" /\ last.file.kind = "missing")
        => /\ last.frame.out = Return(PyNone)
           /\ last.leaves = NoExc
           /\ ~last.frame.executed
           /\ last.frame.sent = <<>>

C6_Witness ==
    /\ last.op = "debug_file"
    /\ last.file.kind = "missing"
    /\ last.frame.out.val = PyNone
    /\ last.frame.printed = <<"File not found:">>

-----------------------------------------------------------------------------
(* C7 *)

-----------------------------------------------------------------------------
(* C8 *)

\* The sections the fallback prompt must show, in order, for an error_info.
FallbackSections(info) ==
    << <<"SOURCE CODE:">> \o Fmt(info.code),
       <<"ERROR INFORMATION:">>, Fmt(info.error_type), Fmt(info.error_message),
       <<"TRACEBACK:">> \o Fmt(info.traceback),
       <<"1. What happened">>, <<"2. Where it occurs">>, <<"3. Why it occurs">>,
       <<"4. How to fix it">>, <<"5. Best practices to avoid this">> >>

\* C8: with the templating backend unavailable, for every diagnostic record
\* the user prompt contains, in order, "SOURCE CODE" with the source verbatim,
\* "ERROR INFORMATION" with the fault kind and message, "TRACEBACK" with the
\* trace text, and the five numbered facets.
C8_FallbackSectionsInOrder ==
    (DebuggerCall /\ BackendUnavailable /\ last.frame.info # NoInfo)
        => /\ IsStr(last.frame.prompt)
           /\ InOrder(last.frame.prompt.s, FallbackSections(last.frame.info))

C8_Witness ==
    /\ last.op = "format_error_context"
    /\ BackendUnavailable
    /\ last.frame.info.error_message = PyStr(<<>>)
    /\ Contains(last.frame.info.code.s, <<"SOURCE CODE:">>)
    /\ IsStr(last.frame.prompt)

-----------------------------------------------------------------------------
(* C9 *)

\* The calls that build a diagnostic record from a fault they caught.
RecordOps == {"debug_code", "debug_with_ai", "debug_file", "AutoDebug"}

\* C9 as claimed: every diagnostic record built by debug_code or by
\* AutoDebug.__exit__ has a non-empty fault kind and a non-empty fault
\* message, and its source code and trace text are strings.
C9_RecordFieldsNonEmpty ==
    (last.op \in RecordOps /\ last.frame.info # NoInfo)
        => /\ NonEmptyStr(last.frame.info.error_type)
           /\ NonEmptyStr(last.frame.info.error_message)
           /\ IsStr(last.frame.info.code)
           /\ IsStr(last.frame.info.traceback)

\* C9 as amended: every diagnostic record has a non-empty fault kind, its
\* fault message is the string form of the fault (a string, empty when the
\* fault was constructed without a message), and its source code and trace
\* text are strings, never None.
C9_RecordFields ==
    (last.op \in RecordOps /\ last.frame.info # NoInfo)
        => /\ NonEmptyStr(last.frame.info.error_type)
           /\ last.frame.info.error_message = PyStr(last.fault.msg)
           /\ IsStr(last.frame.info.code)
           /\ IsStr(last.frame.info.traceback)

C9_Witness ==
    /\ last.op = "AutoDebug"
    /\ last.fault # NoFault
    /\ last.fault.msg = <<>>
    /\ last.frame.info.error_message = PyStr(<<>>)
    /\ last.frame.info.code = PyStr(ContextNotAvailable)

-----------------------------------------------------------------------------
(* C10 *)

\* C10: when the service answers with a generated text, analyze_error returns
\* it verbatim and debug_code returns exactly that text; every request
\* carries the caller's model selector unchanged and exactly two messages,
\* the system instruction first and the user prompt second.
C10_ReplyVerbatim ==
    (last.op \in RunOps \cup {"analyze_error"} /\ Asked)
        => /\ last.env.svc.kind = "text" => last.frame.out = Return(last.env.svc.content)
           /\ last.frame.sent[1].model = last.model
           /\ Len(last.frame.sent[1].messages) = 2
           /\ last.frame.sent[1].messages[1].role = "system"
           /\ last.frame.sent[1].messages[1].content
                \in {PyStr(DefaultSystemPrompt), PyStr(SystemPromptFile)}
           /\ last.frame.sent[1].messages[2].role = "user"
           /\ last.frame.sent[1].messages[2].content
                \in {PyStr(FallbackPrompt(last.frame.info)),
                     PyStr(RenderedTemplate(last.frame.info, <<>>))}

C10_Witness ==
    /\ last.op = "debug_code"
    /\ Asked
    /\ last.model = "fast"
    /\ last.env.svc.kind = "text"
    /\ last.frame.out.val = PyStr(<<"explanation">>)

-----------------------------------------------------------------------------
(* C11 *)

\* C11: over any sequence of debug_code and AutoDebug invocations of
\* debugger.py, the number of requests sent to the explanation service equals
\* the number of faults detected: one request per fault, no retry after a
\* failed request, no request for an invocation that ends without a fault.
C11_OneRequestPerFault ==
    /\ tally["basic"].requests = tally["basic"].faults
    /\ (last.op \in Invocations /\ last.self.variant = "basic")
          => Len(last.frame.sent) = (IF Detects(last.op, last.fault, last.file) THEN 1 ELSE 0)

C11_Witness ==
    /\ last.op = "AutoDebug"
    /\ last.self.variant = "basic"
    /\ last.env.svc.kind = "fail"
    /\ tally["basic"].faults = 2
    /\ tally["basic"].requests = 2
    /\ calls = 3

-----------------------------------------------------------------------------
(* C12 *)


\* One step of the process, as far as the stored loader is concerned.
LoaderStep ==
    /\ loader # 0 => (loader' = loader /\ constructed' = constructed)
    /\ loader = 0 => \/ loader' = 0 /\ constructed' = constructed
                     \/ loader' = constructed + 1 /\ constructed' = constructed + 1
    /\ constructed' <= 1
    /\ (last'.op \in LoaderOps /\ last' # last) =>
          IF loader = 0 /\ last'.env.ctor_raises
          THEN /\ last'.frame.out = Raise(Exc("OSError", TRUE, <<"loader">>))
               /\ loader' = 0
          ELSE /\ loader' # 0
               /\ last'.op = "get_loader" => last'.frame.out = Return(PyLoader(loader'))

\* C12: in a single-threaded process get_loader builds a PromptTemplateLoader
\* at most once after its first successful construction; every later call of
\* get_loader, render_error_prompt or get_system_prompt returns or uses that
\* instance, the stored instance is never replaced or reset, and a
\* construction that raises leaves it unset, so that the next call builds it.
C12_LoaderBuiltOnce == [][LoaderStep]_vars

\* get_loader returns the stored instance in an environment where building
\* one would raise.
C12_Witness ==
    /\ last.op = "get_loader"
    /\ last.env.ctor_raises
    /\ last.frame.out = Return(PyLoader(1))
    /\ loader = 1
    /\ constructed = 1
    /\ calls = 3

-----------------------------------------------------------------------------
(* C13 *)

\* C13: when the block inside an AutoDebug scope exits without a fault,
\* __exit__ takes no action: it builds no diagnostic record, sends no request,
\* prints nothing and returns a falsy value (None); nothing leaves the scope.
C13_NormalExitNoAction ==
    (last.op = "AutoDebug" /\ last.fault = NoFault)
        => /\ last.frame.info = NoInfo
           /\ last.frame.prompt = PyNone
           /\ last.frame.sent = <<>>
           /\ last.frame.printed = <<>>
           /\ last.frame.out = Return(PyNone)
           /\ last.leaves = NoExc

C13_Witness ==
    /\ last.op = "AutoDebug"
    /\ last.fault = NoFault
    /\ last.frame.out.val = PyNone
    /\ ~last.frame.out.raised
    /\ calls = 2
    /\ requests = 1

-----------------------------------------------------------------------------
(* C14 *)

-----------------------------------------------------------------------------
(* C15 *)

\* An instance both of whose attributes __init__ has set.
FullyBuilt(h, v) ==
    /\ v.t = "loader"
    /\ v.s[1] \in 1..Len(h)
    /\ h[v.s[1]].prompts_dir
    /\ h[v.s[1]].env

RaceStep ==
    /\ \A t \in Threads :
          (threads'[t].pc = "done" /\ ~threads'[t].raised)
              => FullyBuilt(heap', threads'[t].ret)
    /\ settled # 0 =>
          /\ loader' = settled
          /\ \A t \in Threads :
                (threads[t].pc = "return" /\ threads'[t].pc = "done")
                    => threads'[t].ret = PyLoader(settled)

\* C15: under every interleaving of threads calling get_loader while no
\* instance is stored, every call that returns gives a fully constructed
\* PromptTemplateLoader, never None or an instance whose __init__ has not
\* finished; and from the moment no call is in flight with an instance
\* stored, the stored instance never changes and every later call returns it.
C15_RacesBenign == [][RaceStep]_vars

\* Both threads found _loader None and built an instance each; the second
\* store won; a call made after both had returned gave the stored instance.
C15_Witness ==
    /\ constructed = 2
    /\ settled = 2
    /\ loader = 2
    /\ threads[1].pc = "done"
    /\ threads[1].gets = 2
    /\ threads[1].ret = PyLoader(2)
    /\ threads[2].pc = "done"
    /\ threads[2].gets = 1
    /\ FullyBuilt(heap, PyLoader(1))
    /\ FullyBuilt(heap, PyLoader(2))

====
